---------------------------- MODULE Spec2Model ----------------------------
(***************************************************************************)
(* A model of tap-btg's three record generators                            *)
(* (src/tap_btg/streams.py): InvestmentsTransactionsStream.get_records,    *)
(* CreditTransactionsStream.get_records and                                *)
(* BankingTransactionsStream.get_records; of their read_*_from_s3, which   *)
(* download a remote file into a temporary one; and of                     *)
(* BTGStream.get_file_paths (src/tap_btg/client.py), which resolves and    *)
(* caches the files of a stream.                                           *)
(*                                                                         *)
(* Text is a tuple of one-character strings, so that the code's regular    *)
(* expressions, str.lstrip, str.replace and the numeric parsers are        *)
(* computed character by character.  A missing cell (pandas NaN / None)    *)
(* is the value NaN below, which is no text.                               *)
(***************************************************************************)
EXTENDS Integers, Sequences, FiniteSets, TLC

VARIABLES
    stream,               \* which Stream subclass runs get_records
    file_password,        \* self.config.get("file_password")
    file_paths,           \* what self.get_file_paths() returns: <<[path, content]>>
    file_idx,             \* position of the for loop over file_paths (1-based)
    pc,                   \* where get_records stands
    btg_credit_raw_list,  \* credit: the tables tabula.read_pdf returned
    file_year,            \* credit: billing year decoded from the file name
    file_month,           \* credit: billing month decoded from the file name
    btg_credit_raw,       \* credit: the concatenated, filtered physical rows
    btg_credit,           \* credit: the frame of logical rows, rows carry their index label
    btg_investments_raw,  \* investments: tabula_reader[0]
    btg_banking,          \* banking: pd.DataFrame(sheet)
    records,              \* to_dict("records") of the file, not yet yielded
    emitted,              \* every record yielded so far, in order
    logged,               \* messages passed to self.logger.error
    calls,                \* number of get_file_paths / read_* calls made
    temp_files,           \* the temporary files that exist on the disk
    s3_read,              \* a read_*_from_s3 call: its function, position and locals
    BTGStream_file_paths, \* the class attribute BTGStream.file_paths
    self_file_paths,      \* each stream's own attribute file_paths, when it has one
    file_config,          \* each stream's file_config["path"]
    disk,                 \* the keys of the bucket and the names in the directory
    observed              \* what the caller of get_file_paths has seen so far

runVars == <<stream, file_password, file_paths, file_idx, pc, btg_credit_raw_list,
             file_year, file_month, btg_credit_raw, btg_credit, btg_investments_raw,
             btg_banking, records, emitted, logged, calls>>

readVars == <<temp_files, s3_read>>

pathVars == <<BTGStream_file_paths, self_file_paths, file_config, disk, observed>>

vars == <<runVars, readVars, pathVars>>

---------------------------------------------------------------------------
(* Text helpers *)

NaN == <<"NaN">>

IsNull(c) == c = NaN

Digits == {"0", "1", "2", "3", "4", "5", "6", "7", "8", "9"}

Letters == {"a", "b", "c", "d", "e", "f", "g", "h", "i", "j", "k", "l", "m",
            "n", "o", "p", "q", "r", "s", "t", "u", "v", "w", "x", "y", "z",
            "A", "B", "C", "D", "E", "F", "G", "H", "I", "J", "K", "L", "M",
            "N", "O", "P", "Q", "R", "S", "T", "U", "V", "W", "X", "Y", "Z"}

Whitespace == {" ", "\t"}

DigitValue(c) ==
    CASE c = "0" -> 0 [] c = "1" -> 1 [] c = "2" -> 2 [] c = "3" -> 3
      [] c = "4" -> 4 [] c = "5" -> 5 [] c = "6" -> 6 [] c = "7" -> 7
      [] c = "8" -> 8 [] c = "9" -> 9

\* s[k..] begins with p
StartsWithAt(s, p, k) ==
    /\ Len(s) >= k - 1 + Len(p)
    /\ \A j \in 1..Len(p) : s[k - 1 + j] = p[j]

\* str.startswith
StartsWith(s, p) == StartsWithAt(s, p, 1)

\* str.endswith
EndsWith(s, p) == Len(s) >= Len(p) /\ StartsWithAt(s, p, Len(s) - Len(p) + 1)

\* substring search: str.contains(p, regex=False), or a regex that is a literal
Contains(s, p) == \E k \in 1..(Len(s) - Len(p) + 1) : StartsWithAt(s, p, k)

\* str.lstrip(chars): drops every leading character that is in the SET chars
LStrip(s, chars) ==
    IF \A i \in 1..Len(s) : s[i] \in chars
    THEN <<>>
    ELSE LET k == CHOOSE i \in 1..Len(s) :
                      s[i] \notin chars /\ \A j \in 1..(i - 1) : s[j] \in chars
         IN  SubSeq(s, k, Len(s))

\* str.replace(old, new) for a one-character old
RECURSIVE Replace(_, _, _)
Replace(s, old, new) ==
    IF s = <<>> THEN <<>>
    ELSE (IF Head(s) = old THEN new ELSE <<Head(s)>>) \o Replace(Tail(s), old, new)

RECURSIVE DigitsValue(_)
DigitsValue(s) ==
    IF s = <<>> THEN 0 ELSE DigitsValue(SubSeq(s, 1, Len(s) - 1)) * 10 + DigitValue(s[Len(s)])

AllDigits(s) == \A i \in 1..Len(s) : s[i] \in Digits

---------------------------------------------------------------------------
(* Numbers: a float is m / 10^e, kept without trailing fraction zeros so    *)
(* that equal values are equal records; nan marks float("nan").            *)

RECURSIVE Norm(_, _)
Norm(m, e) ==
    IF e > 0 /\ m % 10 = 0 THEN Norm(m \div 10, e - 1)
    ELSE [nan |-> FALSE, m |-> m, e |-> e]

NanValue == [nan |-> TRUE, m |-> 0, e |-> 0]

Negate(v) == IF v.nan THEN v ELSE [v EXCEPT !.m = 0 - v.m]

\* the decimal literals both parsers accept: [sign] digits [. digits]
IsDecimal(s) ==
    LET body == IF s # <<>> /\ s[1] \in {"-", "+"} THEN Tail(s) ELSE s
        dots == {i \in 1..Len(body) : body[i] = "."}
    IN  /\ body # <<>>
        /\ Cardinality(dots) <= 1
        /\ \A i \in 1..Len(body) : body[i] \in Digits \cup {"."}
        /\ \E i \in 1..Len(body) : body[i] \in Digits

DecimalValue(s) ==
    LET neg  == s[1] = "-"
        body == IF s[1] \in {"-", "+"} THEN Tail(s) ELSE s
        ds   == SelectSeq(body, LAMBDA c : c \in Digits)
        dot  == IF \E i \in 1..Len(body) : body[i] = "."
                THEN CHOOSE i \in 1..Len(body) : body[i] = "."
                ELSE Len(body) + 1
        frac == IF dot > Len(body) THEN 0 ELSE Len(body) - dot
        mag  == DigitsValue(ds)
    IN  Norm(IF neg THEN 0 - mag ELSE mag, frac)

---------------------------------------------------------------------------
(* Calendar dates: [y, m, d]; NaT is the missing date.                     *)

NaT == [y |-> 0, m |-> 0, d |-> 0]

IsLeap(y) == (y % 4 = 0 /\ y % 100 # 0) \/ y % 400 = 0

DaysInMonth(y, m) ==
    IF m = 2 THEN (IF IsLeap(y) THEN 29 ELSE 28)
    ELSE IF m \in {4, 6, 9, 11} THEN 30 ELSE 31

\* date + pd.DateOffset(months=k): the month moves by k, the day is clamped to
\* the length of the month reached; NaT stays NaT
AddMonths(dt, k) ==
    IF dt = NaT THEN NaT
    ELSE LET t == dt.y * 12 + (dt.m - 1) + k
             y == t \div 12
             m == (t % 12) + 1
             dim == DaysInMonth(y, m)
         IN  [y |-> y, m |-> m, d |-> IF dt.d > dim THEN dim ELSE dt.d]

UpperLetters == <<"A", "B", "C", "D", "E", "F", "G", "H", "I", "J", "K", "L", "M",
                  "N", "O", "P", "Q", "R", "S", "T", "U", "V", "W", "X", "Y", "Z">>

LowerLetters == <<"a", "b", "c", "d", "e", "f", "g", "h", "i", "j", "k", "l", "m",
                  "n", "o", "p", "q", "r", "s", "t", "u", "v", "w", "x", "y", "z">>

Lower(c) ==
    IF \E i \in 1..26 : UpperLetters[i] = c
    THEN LowerLetters[CHOOSE i \in 1..26 : UpperLetters[i] = c]
    ELSE c

\* the Portuguese month abbreviations dateparser knows (languages=["pt"])
MonthAbbr == << <<"j","a","n">>, <<"f","e","v">>, <<"m","a","r">>, <<"a","b","r">>,
                <<"m","a","i">>, <<"j","u","n">>, <<"j","u","l">>, <<"a","g","o">>,
                <<"s","e","t">>, <<"o","u","t">>, <<"n","o","v">>, <<"d","e","z">> >>

\* dateparser.parse(text, date_formats=["%b"], languages=["pt"]).month, matched
\* without regard to case; 0 when dateparser returns None
MonthNumber(text) ==
    LET low == [i \in 1..Len(text) |-> Lower(text[i])]
    IN  IF \E m \in 1..12 : MonthAbbr[m] = low
        THEN CHOOSE m \in 1..12 : MonthAbbr[m] = low
        ELSE 0

---------------------------------------------------------------------------
(* CreditTransactionsStream: the pure steps of get_records                 *)

\* r"^[0-9]{2}\s[a-zA-Z]{3}" with na=False: a prefix match
DatePattern(c) ==
    /\ ~IsNull(c)
    /\ Len(c) >= 6
    /\ c[1] \in Digits /\ c[2] \in Digits
    /\ c[3] \in Whitespace
    /\ c[4] \in Letters /\ c[5] \in Letters /\ c[6] \in Letters

Cotacao == <<"C", "o", "t", "a", "ç", "ã", "o">>

Conversao == <<"C", "o", "n", "v", "e", "r", "s", "ã", "o">>

\* "Cotação|Conversão" with regex=True, na=False
ConversionPattern(c) == ~IsNull(c) /\ (Contains(c, Cotacao) \/ Contains(c, Conversao))

\* a physical row is <<c0, c1, c2, c3, c4, c5>>: column k is element k + 1
condition_1(row) == DatePattern(row[1])

\* a selection that looks for the right-hand date one column too far
condition_2_OnDescription(row) == DatePattern(row[5])

condition_2(row) == DatePattern(row[4])

condition_3(row) == ConversionPattern(row[2])

condition_4(row) == ConversionPattern(row[5])

\* pd.concat(tables): the rows of all tables, in order
RECURSIVE Concat(_)
Concat(tables) ==
    IF tables = <<>> THEN <<>> ELSE Head(tables) \o Concat(Tail(tables))

\* btg_credit_raw[(condition_1 | condition_2 | condition_3 | condition_4)]
FilterRows(raw) ==
    SelectSeq(raw, LAMBDA row : condition_1(row) \/ condition_2(row)
                                 \/ condition_3(row) \/ condition_4(row))

\* np.concatenate([raw[[0, 1, 2]], raw[[3, 4, 5]]], axis=0) as a fresh frame:
\* all left halves, then all right halves, labelled 0 .. 2n - 1
StackHalves(raw) ==
    LET n == Len(raw)
    IN  [k \in 1..(2 * n) |->
            IF k <= n
            THEN [idx |-> k - 1, date |-> raw[k][1], description |-> raw[k][2],
                  amount |-> raw[k][3]]
            ELSE [idx |-> k - 1, date |-> raw[k - n][4],
                  description |-> raw[k - n][5], amount |-> raw[k - n][6]]]

AllNull(r) == IsNull(r.date) /\ IsNull(r.description) /\ IsNull(r.amount)

\* dropna(how="all", inplace=True): the labels of the rows that stay are kept
DropNaAll(frame) == SelectSeq(frame, LAMBDA r : ~AllNull(r))

Labels(frame) == {frame[k].idx : k \in 1..Len(frame)}

RowAt(frame, label) == frame[CHOOSE k \in 1..Len(frame) : frame[k].idx = label]

USD == <<"U", "S", "$">>

\* the labels where amount.str.contains("US$", regex=False) is True, in order
UsdLabels(frame) ==
    LET hits == SelectSeq(frame, LAMBDA r : Contains(r.amount, USD))
    IN  [k \in 1..Len(hits) |-> hits[k].idx]

\* one pass of the loop body for label i:
\*   btg_credit.loc[i, "amount"] = btg_credit.loc[i + 2, "amount"]
\*   btg_credit.drop([i + 1, i + 2], inplace=True)
\* .loc reads by label and raises KeyError for a missing one; assigning to a
\* missing label appends a row; drop raises KeyError when a label is missing
RepairOne(frame, i) ==
    IF (i + 2) \notin Labels(frame) THEN [ok |-> FALSE, frame |-> frame]
    ELSE LET a   == RowAt(frame, i + 2).amount
             set == IF i \in Labels(frame)
                    THEN [k \in 1..Len(frame) |->
                            IF frame[k].idx = i
                            THEN [frame[k] EXCEPT !.amount = a] ELSE frame[k]]
                    ELSE Append(frame, [idx |-> i, date |-> NaN,
                                        description |-> NaN, amount |-> a])
         IN  IF (i + 1) \notin Labels(set) THEN [ok |-> FALSE, frame |-> set]
             ELSE [ok |-> TRUE,
                   frame |-> SelectSeq(set, LAMBDA r : r.idx \notin {i + 1, i + 2})]

RECURSIVE RepairLoop(_, _)
RepairLoop(frame, labels) ==
    IF labels = <<>> THEN [ok |-> TRUE, frame |-> frame]
    ELSE LET one == RepairOne(frame, Head(labels))
         IN  IF one.ok THEN RepairLoop(one.frame, Tail(labels)) ELSE one

\* reset_index(drop=True, inplace=True)
ResetIndex(frame) == [k \in 1..Len(frame) |-> [frame[k] EXCEPT !.idx = k - 1]]

\* lines 257-264; indexing with a mask that holds NaN (a missing amount) raises
RepairForeign(frame) ==
    IF \E k \in 1..Len(frame) : IsNull(frame[k].amount)
    THEN [ok |-> FALSE, frame |-> frame]
    ELSE LET r == RepairLoop(frame, UsdLabels(frame))
         IN  [ok |-> r.ok, frame |-> ResetIndex(r.frame)]

\* a normalization that strips the printed sign and always prefixes "-"
SignedText_AlwaysMinus(a) == <<"-">> \o LStrip(a, {"-", " ", "R", "$"})

\* np.where(startswith("-"), lstrip("- R$"), "-" + lstrip("R$ "))
SignedText(a) ==
    IF StartsWith(a, <<"-">>)
    THEN LStrip(a, {"-", " ", "R", "$"})
    ELSE <<"-">> \o LStrip(a, {"R", "$", " "})

\* lines 266-276: the text handed to pd.to_numeric
AmountText(a) == Replace(Replace(SignedText(a), ".", <<>>), ",", <<".">>)

\* pd.to_numeric on one element: the empty text becomes NaN, a decimal
\* literal its value, anything else makes the call raise
CanNumeric(s) == s = <<>> \/ IsDecimal(s)

ToNumeric(s) == IF s = <<>> THEN NanValue ELSE DecimalValue(s)

\* text[-3:]
LastThree(s) == SubSeq(s, IF Len(s) > 3 THEN Len(s) - 2 ELSE 1, Len(s))

\* _get_transaction_year raises for a row whose date is missing (a float has
\* no [-3:]) or whose last three characters are no month (None has no .month)
CanYear(r) == ~IsNull(r.date) /\ MonthNumber(LastThree(r.date)) # 0

\* a year rule that also sends the billing month itself to the year before
_get_transaction_year_OnOrAfter(r, fy, fm) ==
    IF fm - MonthNumber(LastThree(r.date)) <= 0 THEN fy - 1 ELSE fy

_get_transaction_year(r, fy, fm) ==
    IF fm - MonthNumber(LastThree(r.date)) < 0 THEN fy - 1 ELSE fy

\* dateparser.parse(date + " " + year, languages=["pt"]): the day and month as
\* printed, in that year; None (NaT) when there is no such calendar day
_create_transaction_date(r, year) ==
    LET m == MonthNumber(LastThree(r.date))
        d == DigitsValue(SubSeq(r.date, 1, 2))
    IN  IF DatePattern(r.date) /\ Len(r.date) = 6 /\ d >= 1 /\ d <= DaysInMonth(year, m)
        THEN [y |-> year, m |-> m, d |-> d]
        ELSE NaT

\* the first place where r"\([0-9]\/[0-9]\)" matches, 0 when none does
InstallmentAt(desc) ==
    LET ok(k) == /\ k + 4 <= Len(desc)
                 /\ desc[k] = "(" /\ desc[k + 1] \in Digits /\ desc[k + 2] = "/"
                 /\ desc[k + 3] \in Digits /\ desc[k + 4] = ")"
    IN  IF IsNull(desc) \/ ~\E k \in 1..Len(desc) : ok(k) THEN 0
        ELSE CHOOSE k \in 1..Len(desc) : ok(k) /\ \A j \in 1..(k - 1) : ~ok(j)

\* str.extract(r"\(([0-9])\/[0-9]\)").fillna("0").astype(int)
installment_number(desc) ==
    IF InstallmentAt(desc) = 0 THEN 0 ELSE DigitValue(desc[InstallmentAt(desc) + 1])

\* str.extract(r"\([0-9]\/([0-9])\)").fillna("0").astype(int)
installment_total(desc) ==
    IF InstallmentAt(desc) = 0 THEN 0 ELSE DigitValue(desc[InstallmentAt(desc) + 3])

\* lines 318-324
ShiftDate(r) ==
    IF installment_total(r.description) # 0
    THEN AddMonths(r.date, installment_number(r.description) - 1)
    ELSE r.date

---------------------------------------------------------------------------
(* File names                                                              *)

S3Prefix == <<"s", "3", ":", "/", "/">>

\* the text after the last "/": file_path.split("/")[-1], os.path.basename
AfterLastSlash(p) ==
    IF \E i \in 1..Len(p) : p[i] = "/"
    THEN LET k == CHOOSE i \in 1..Len(p) :
                      p[i] = "/" /\ \A j \in (i + 1)..Len(p) : p[j] # "/"
         IN  SubSeq(p, k + 1, Len(p))
    ELSE p

\* name.rsplit(".", 1)[0]
RSplitDot(name) ==
    IF \E i \in 1..Len(name) : name[i] = "."
    THEN LET k == CHOOSE i \in 1..Len(name) :
                      name[i] = "." /\ \A j \in (i + 1)..Len(name) : name[j] # "."
         IN  SubSeq(name, 1, k - 1)
    ELSE name

\* os.path.splitext(name)[0]: the last dot splits, unless only dots precede it
SplitExtRoot(name) ==
    IF \E i \in 1..Len(name) : name[i] = "." /\ \E j \in 1..(i - 1) : name[j] # "."
    THEN LET k == CHOOSE i \in 1..Len(name) :
                      name[i] = "." /\ \A j \in (i + 1)..Len(name) : name[j] # "."
         IN  IF \E j \in 1..(k - 1) : name[j] # "." THEN SubSeq(name, 1, k - 1) ELSE name
    ELSE name

extract_file_name(file_path) ==
    IF StartsWith(file_path, S3Prefix)
    THEN RSplitDot(AfterLastSlash(file_path))
    ELSE SplitExtRoot(AfterLastSlash(file_path))

\* where r"(\d{4})-(\d{2})" matches at k
YearMonthAt(name, k) ==
    /\ k + 6 <= Len(name)
    /\ \A j \in 0..3 : name[k + j] \in Digits
    /\ name[k + 4] = "-"
    /\ name[k + 5] \in Digits /\ name[k + 6] \in Digits

\* re.findall(r"(\d{4})-(\d{2})", name): is there a match, and the first one
HasYearMonth(name) == \E k \in 1..Len(name) : YearMonthAt(name, k)

\* a decoding that takes the last match for the billing month
FirstYearMonth_Last(name) ==
    LET k == CHOOSE i \in 1..Len(name) :
                 YearMonthAt(name, i) /\ \A j \in (i + 1)..Len(name) : ~YearMonthAt(name, j)
    IN  [year  |-> DigitsValue(SubSeq(name, k, k + 3)),
         month |-> DigitsValue(SubSeq(name, k + 5, k + 6))]

FirstYearMonth(name) ==
    LET k == CHOOSE i \in 1..Len(name) :
                 YearMonthAt(name, i) /\ \A j \in 1..(i - 1) : ~YearMonthAt(name, j)
    IN  [year  |-> DigitsValue(SubSeq(name, k, k + 3)),
         month |-> DigitsValue(SubSeq(name, k + 5, k + 6))]

PdfSuffix == <<".", "p", "d", "f">>

XlsSuffix == <<".", "x", "l", "s">>

---------------------------------------------------------------------------
(* Day-first dates of the investment and banking statements                *)

\* pd.to_datetime(cell, dayfirst=True) accepts here: a missing cell (NaT) and
\* the text DD/MM/YYYY of a calendar day; for any other text it raises
IsDayFirstText(c) ==
    /\ Len(c) = 10
    /\ c[3] = "/" /\ c[6] = "/"
    /\ \A i \in {1, 2, 4, 5, 7, 8, 9, 10} : c[i] \in Digits
    /\ LET d == DigitsValue(SubSeq(c, 1, 2))
           m == DigitsValue(SubSeq(c, 4, 5))
           y == DigitsValue(SubSeq(c, 7, 10))
       IN  m \in 1..12 /\ d >= 1 /\ d <= DaysInMonth(y, m)

CanDatetime(c) == IsNull(c) \/ IsDayFirstText(c)

ToDatetimeDayFirst(c) ==
    IF IsNull(c) THEN NaT
    ELSE [y |-> DigitsValue(SubSeq(c, 7, 10)), m |-> DigitsValue(SubSeq(c, 4, 5)),
          d |-> DigitsValue(SubSeq(c, 1, 2))]

---------------------------------------------------------------------------
(* InvestmentsTransactionsStream: the pure steps of get_records            *)
(* A table is a sequence of rows, a row a tuple of five cells; row 2       *)
(* (iloc[1]) holds the column names.                                       *)

Data == <<"D", "a", "t", "a">>

Descricao == <<"D", "e", "s", "c", "r", "i", "ç", "ã", "o">>

Debito == <<"D", "é", "b", "i", "t", "o">>

Credito == <<"C", "r", "é", "d", "i", "t", "o">>

Saldo == <<"S", "a", "l", "d", "o">>

\* the position of the column that rename(columns=iloc[1]) names `name`, 0 if none
ColumnOf(header, name) ==
    IF \E i \in 1..Len(header) : header[i] = name
    THEN CHOOSE i \in 1..Len(header) : header[i] = name
    ELSE 0

\* the labels the code reads with [...] or drops with drop(columns=...)
HasColumns(header) ==
    \A name \in {Data, Debito, Credito, Saldo} : ColumnOf(header, name) # 0

\* a sign that takes the debit for the inflow
Sign_Flipped(debito) == IF IsNull(debito) THEN -1 ELSE 1

\* np.where(Débito.isnull(), 1, -1)
Sign(debito) == IF IsNull(debito) THEN 1 ELSE -1

NanText == <<"n", "a", "n">>

\* .loc[:, ["Débito", "Crédito"]].bfill(axis=1).iloc[:, 0].astype(str)
Valor(debito, credito) ==
    LET first == IF IsNull(debito) THEN credito ELSE debito
    IN  IF IsNull(first) THEN NanText ELSE first

\* x.replace(".", "").replace(",", ".")
LocaleText(x) == Replace(Replace(x, ".", <<>>), ",", <<".">>)

\* astype(float) on one element: float("nan") is NaN, a decimal literal its
\* value, anything else raises ValueError
CanFloat(s) == s = NanText \/ IsDecimal(s)

ToFloat(s) == IF s = NanText THEN NanValue ELSE DecimalValue(s)

\* Sign * float
Times(sign, v) == IF sign = 1 THEN v ELSE Negate(v)

\* drop(tail(3).index) and then drop(head(1).index)
DropTail3Head1(rows) ==
    LET cut == SubSeq(rows, 1, IF Len(rows) > 3 THEN Len(rows) - 3 ELSE 0)
    IN  IF cut = <<>> THEN <<>> ELSE Tail(cut)

\* lines 95-126 on one table: [ok |-> FALSE] when a statement raises
NormalizeInvestments(table) ==
    IF Len(table) < 2 \/ ~HasColumns(table[2]) THEN [ok |-> FALSE, records |-> <<>>]
    ELSE
      LET header == table[2]
          body   == SubSeq(table, 3, Len(table))
          deb(r) == r[ColumnOf(header, Debito)]
          cre(r) == r[ColumnOf(header, Credito)]
          txt(r) == LocaleText(Valor(deb(r), cre(r)))
          kept   == DropTail3Head1(body)
          dat(r) == r[ColumnOf(header, Data)]
          des(r) == IF ColumnOf(header, Descricao) = 0 THEN NaN
                    ELSE r[ColumnOf(header, Descricao)]
      IN  IF \E k \in 1..Len(body) : ~CanFloat(txt(body[k]))
          THEN [ok |-> FALSE, records |-> <<>>]
          ELSE IF \E k \in 1..Len(kept) : ~CanDatetime(dat(kept[k]))
          THEN [ok |-> FALSE, records |-> <<>>]
          ELSE [ok |-> TRUE,
                records |-> [k \in 1..Len(kept) |->
                    [date |-> ToDatetimeDayFirst(dat(kept[k])),
                     description |-> des(kept[k]),
                     amount |-> Times(Sign(deb(kept[k])), ToFloat(txt(kept[k])))]]]

---------------------------------------------------------------------------
(* BankingTransactionsStream: the pure steps of get_records                *)
(* A sheet is a sequence of rows, a row a record of the five columns the   *)
(* code selects; an empty cell is the empty text.                          *)

DataEHora == <<"D", "a", "t", "a", " ", "e", " ", "h", "o", "r", "a">>

Separator == <<" ", "-", " ">>

\* replace("", np.nan) on one cell
EmptyToNaN(c) == IF c = <<>> THEN NaN ELSE c

\* text + text, NaN when either side is missing
Plus(a, b) == IF IsNull(a) \/ IsNull(b) THEN NaN ELSE a \o b

\* lines 413-419
Description(r) ==
    Plus(Plus(Plus(Plus(EmptyToNaN(r.Categoria), Separator), EmptyToNaN(r.Transacao)),
              Separator), EmptyToNaN(r.Descricao))

\* dropna(subset="Valor") and the drop of the rows that repeat the header
KeepBanking(r) == ~IsNull(EmptyToNaN(r.Valor)) /\ r.DataEHora # DataEHora

\* lines 399-423 on one sheet; pd.DataFrame([]) has no columns, so selecting
\* the five columns of an empty sheet raises KeyError
NormalizeBanking(sheet) ==
    LET kept == SelectSeq(sheet, KeepBanking)
    IN  IF sheet = <<>> \/ \E k \in 1..Len(kept) : ~CanDatetime(EmptyToNaN(kept[k].DataEHora))
        THEN [ok |-> FALSE, records |-> <<>>]
        ELSE [ok |-> TRUE,
              records |-> [k \in 1..Len(kept) |->
                  [date |-> ToDatetimeDayFirst(EmptyToNaN(kept[k].DataEHora)),
                   description |-> Description(kept[k]),
                   amount |-> kept[k].Valor]]]

---------------------------------------------------------------------------
(* CreditTransactionsStream: lines 221-334 as one function of the file,    *)
(* built from the steps above                                              *)

\* a test that lets the empty text pass
Truthy_NotNone(v) == ~IsNull(v)

\* a falsy config value: the key is absent (None) or the text is empty
Truthy(v) == ~IsNull(v) /\ v # <<>>

\* lines 266-277 on the frame
CanAmounts(frame) == \A k \in 1..Len(frame) : CanNumeric(AmountText(frame[k].amount))

NormalizeAmounts(frame) ==
    [k \in 1..Len(frame) |->
        [frame[k] EXCEPT !.amount = ToNumeric(AmountText(frame[k].amount))]]

\* lines 279-304 on the frame
CanDates(frame) == \A k \in 1..Len(frame) : CanYear(frame[k])

InferDates(frame, fy, fm) ==
    [k \in 1..Len(frame) |->
        [frame[k] EXCEPT !.date =
            _create_transaction_date(frame[k], _get_transaction_year(frame[k], fy, fm))]]

\* lines 306-326 on the frame
ShiftInstallments(frame) ==
    [k \in 1..Len(frame) |-> [frame[k] EXCEPT !.date = ShiftDate(frame[k])]]

\* lines 328-336: the first row goes, bill_month is attached
ToRecords(frame, fy, fm) ==
    LET rest == IF frame = <<>> THEN <<>> ELSE Tail(frame)
    IN  [k \in 1..Len(rest) |->
            [date |-> rest[k].date, description |-> rest[k].description,
             amount |-> rest[k].amount,
             bill_month |-> [y |-> fy, m |-> fm, d |-> 1]]]

\* the whole of lines 221-334 for a file that cannot raise: ok is FALSE when
\* some statement raises (or, for a frame without rows, may raise)
NormalizeCredit(path, tables) ==
    LET name == extract_file_name(path)
    IN  IF ~HasYearMonth(name) \/ Len(tables) < 2 THEN [ok |-> FALSE, records |-> <<>>]
        ELSE
          LET ym      == FirstYearMonth(name)
              stacked == DropNaAll(StackHalves(FilterRows(Concat(Tail(tables)))))
              rep     == RepairForeign(stacked)
          IN  IF ~rep.ok \/ rep.frame = <<>> \/ ~CanAmounts(rep.frame)
                 \/ ~CanDates(rep.frame) \/ ym.month \notin 1..12
              THEN [ok |-> FALSE, records |-> <<>>]
              ELSE [ok |-> TRUE,
                    records |-> ToRecords(
                        ShiftInstallments(
                            InferDates(NormalizeAmounts(rep.frame), ym.year, ym.month)),
                        ym.year, ym.month)]

---------------------------------------------------------------------------
(* get_records: the generator, one action per step                         *)

PasswordMissing == <<"f", "i", "l", "e", "_", "p", "a", "s", "s", "w", "o", "r", "d", " ", "i", "s", " ", "m", "i", "s", "s", "i", "n", "g", ".">>

CurrentFile == file_paths[file_idx]

\* the exception leaves the generator: nothing runs after it
Raise ==
    /\ pc' = "raised"
    /\ UNCHANGED <<stream, file_password, file_paths, file_idx, btg_credit_raw_list,
                   file_year, file_month, btg_credit_raw, btg_credit,
                   btg_investments_raw, btg_banking, records, emitted, logged>>

\* credit, lines 205-207: the password is falsy, the error is logged and the
\* generator ends
MissingPassword ==
    /\ pc = "start" /\ stream = "credit" /\ ~Truthy(file_password)
    /\ logged' = Append(logged, PasswordMissing)
    /\ pc' = "done"
    /\ UNCHANGED <<stream, file_password, file_paths, file_idx, btg_credit_raw_list,
                   file_year, file_month, btg_credit_raw, btg_credit,
                   btg_investments_raw, btg_banking, records, emitted, calls>>
    /\ UNCHANGED <<readVars, pathVars>>

\* `for file_path in self.get_file_paths()`: the list is resolved once
GetFilePaths ==
    /\ pc = "start" /\ (stream = "credit" => Truthy(file_password))
    /\ calls' = Append(calls, "get_file_paths")
    /\ file_idx' = 1
    /\ pc' = "loop"
    /\ UNCHANGED <<stream, file_password, file_paths, btg_credit_raw_list,
                   file_year, file_month, btg_credit_raw, btg_credit,
                   btg_investments_raw, btg_banking, records, emitted, logged>>
    /\ UNCHANGED <<readVars, pathVars>>

\* the for loop is exhausted: the generator returns
LoopDone ==
    /\ pc = "loop" /\ file_idx > Len(file_paths)
    /\ pc' = "done"
    /\ UNCHANGED <<stream, file_password, file_paths, file_idx, btg_credit_raw_list,
                   file_year, file_month, btg_credit_raw, btg_credit,
                   btg_investments_raw, btg_banking, records, emitted, logged, calls>>
    /\ UNCHANGED <<readVars, pathVars>>

\* credit line 210, banking line 393: a path with another suffix is passed over
SkipFile ==
    /\ pc = "loop" /\ file_idx <= Len(file_paths)
    /\ \/ stream = "credit" /\ ~EndsWith(CurrentFile.path, PdfSuffix)
       \/ stream = "banking" /\ ~EndsWith(CurrentFile.path, XlsSuffix)
    /\ file_idx' = file_idx + 1
    /\ UNCHANGED <<stream, file_password, file_paths, pc, btg_credit_raw_list,
                   file_year, file_month, btg_credit_raw, btg_credit,
                   btg_investments_raw, btg_banking, records, emitted, logged, calls>>
    /\ UNCHANGED <<readVars, pathVars>>

ReadCall(path, s3, local) == IF StartsWith(path, S3Prefix) THEN s3 ELSE local

\* investments, lines 89-126: the file is read and its table normalized;
\* tabula_reader[0] raises IndexError when no table was extracted
InvestmentsFile ==
    /\ pc = "loop" /\ file_idx <= Len(file_paths) /\ stream = "investments"
    /\ calls' = Append(calls, ReadCall(CurrentFile.path, "read_pdf_from_s3",
                                       "read_pdf_from_local"))
    /\ IF CurrentFile.content = <<>> THEN Raise
       ELSE LET table == CurrentFile.content[1]
                out   == NormalizeInvestments(table)
            IN  /\ btg_investments_raw' = table
                /\ IF out.ok
                   THEN /\ records' = out.records
                        /\ pc' = "yield"
                   ELSE /\ records' = records
                        /\ pc' = "raised"
                /\ UNCHANGED <<stream, file_password, file_paths, file_idx,
                               btg_credit_raw_list, file_year, file_month,
                               btg_credit_raw, btg_credit, btg_banking, emitted, logged>>
    /\ UNCHANGED <<readVars, pathVars>>

\* banking, lines 393-423
BankingFile ==
    /\ pc = "loop" /\ file_idx <= Len(file_paths) /\ stream = "banking"
    /\ EndsWith(CurrentFile.path, XlsSuffix)
    /\ calls' = Append(calls, ReadCall(CurrentFile.path, "read_xls_from_s3",
                                       "read_xls_from_local"))
    /\ LET out == NormalizeBanking(CurrentFile.content)
       IN  /\ btg_banking' = CurrentFile.content
           /\ IF out.ok
              THEN /\ records' = out.records
                   /\ pc' = "yield"
              ELSE /\ records' = records
                   /\ pc' = "raised"
    /\ UNCHANGED <<stream, file_password, file_paths, file_idx, btg_credit_raw_list,
                   file_year, file_month, btg_credit_raw, btg_credit,
                   btg_investments_raw, emitted, logged>>
    /\ UNCHANGED <<readVars, pathVars>>

\* credit, lines 210-228: the file is read; the billing year and month are
\* the first YYYY-MM of the file name, and [0] raises IndexError without one
CreditRead ==
    /\ pc = "loop" /\ file_idx <= Len(file_paths) /\ stream = "credit"
    /\ EndsWith(CurrentFile.path, PdfSuffix)
    /\ calls' = Append(calls, ReadCall(CurrentFile.path, "read_pdf_from_s3",
                                       "read_pdf_from_local"))
    /\ btg_credit_raw_list' = CurrentFile.content
    /\ LET name == extract_file_name(CurrentFile.path)
       IN  IF HasYearMonth(name)
           THEN /\ file_year' = FirstYearMonth(name).year
                /\ file_month' = FirstYearMonth(name).month
                /\ pc' = "read"
           ELSE /\ UNCHANGED <<file_year, file_month>>
                /\ pc' = "raised"
    /\ UNCHANGED <<stream, file_password, file_paths, file_idx, btg_credit_raw,
                   btg_credit, btg_investments_raw, btg_banking, records, emitted,
                   logged>>
    /\ UNCHANGED <<readVars, pathVars>>

\* credit, lines 230-247: pd.concat of no table raises ValueError
CreditSelect ==
    /\ pc = "read"
    /\ IF Len(btg_credit_raw_list) < 2 THEN Raise
       ELSE /\ btg_credit_raw' = FilterRows(Concat(Tail(btg_credit_raw_list)))
            /\ pc' = "selected"
            /\ UNCHANGED <<stream, file_password, file_paths, file_idx,
                           btg_credit_raw_list, file_year, file_month, btg_credit,
                           btg_investments_raw, btg_banking, records, emitted, logged>>
    /\ UNCHANGED calls
    /\ UNCHANGED <<readVars, pathVars>>

\* credit, lines 248-255
CreditStack ==
    /\ pc = "selected"
    /\ btg_credit' = DropNaAll(StackHalves(btg_credit_raw))
    /\ pc' = "stacked"
    /\ UNCHANGED <<stream, file_password, file_paths, file_idx, btg_credit_raw_list,
                   file_year, file_month, btg_credit_raw, btg_investments_raw,
                   btg_banking, records, emitted, logged, calls>>
    /\ UNCHANGED <<readVars, pathVars>>

\* credit, lines 257-264
CreditRepair ==
    /\ pc = "stacked"
    /\ LET rep == RepairForeign(btg_credit)
       IN  IF ~rep.ok THEN Raise
           ELSE /\ btg_credit' = rep.frame
                /\ pc' = "repaired"
                /\ UNCHANGED <<stream, file_password, file_paths, file_idx,
                               btg_credit_raw_list, file_year, file_month,
                               btg_credit_raw, btg_investments_raw, btg_banking,
                               records, emitted, logged>>
    /\ UNCHANGED calls
    /\ UNCHANGED <<readVars, pathVars>>

\* credit, lines 266-277
CreditAmounts ==
    /\ pc = "repaired"
    /\ IF ~CanAmounts(btg_credit) THEN Raise
       ELSE /\ btg_credit' = NormalizeAmounts(btg_credit)
            /\ pc' = "amounts"
            /\ UNCHANGED <<stream, file_password, file_paths, file_idx,
                           btg_credit_raw_list, file_year, file_month,
                           btg_credit_raw, btg_investments_raw, btg_banking,
                           records, emitted, logged>>
    /\ UNCHANGED calls
    /\ UNCHANGED <<readVars, pathVars>>

\* credit, lines 279-304.  On a frame without rows apply(axis=1) returns a
\* frame, not a column, and whether assigning it raises depends on the pandas
\* installed: both outcomes are possible
CreditDates ==
    /\ pc = "amounts"
    /\ \/ /\ ~CanDates(btg_credit) \/ btg_credit = <<>>
          /\ Raise
       \/ /\ CanDates(btg_credit)
          /\ btg_credit' = InferDates(btg_credit, file_year, file_month)
          /\ pc' = "dated"
          /\ UNCHANGED <<stream, file_password, file_paths, file_idx,
                         btg_credit_raw_list, file_year, file_month,
                         btg_credit_raw, btg_investments_raw, btg_banking,
                         records, emitted, logged>>
    /\ UNCHANGED calls
    /\ UNCHANGED <<readVars, pathVars>>

\* credit, lines 306-326
CreditShift ==
    /\ pc = "dated"
    /\ btg_credit' = ShiftInstallments(btg_credit)
    /\ pc' = "shifted"
    /\ UNCHANGED <<stream, file_password, file_paths, file_idx, btg_credit_raw_list,
                   file_year, file_month, btg_credit_raw, btg_investments_raw,
                   btg_banking, records, emitted, logged, calls>>
    /\ UNCHANGED <<readVars, pathVars>>

\* credit, lines 328-334: pd.to_datetime(f"{file_year}-{file_month}-01") raises
\* for a month that is none
CreditFinish ==
    /\ pc = "shifted"
    /\ IF file_month \notin 1..12 THEN Raise
       ELSE /\ records' = ToRecords(btg_credit, file_year, file_month)
            /\ pc' = "yield"
            /\ UNCHANGED <<stream, file_password, file_paths, file_idx,
                           btg_credit_raw_list, file_year, file_month,
                           btg_credit_raw, btg_credit, btg_investments_raw,
                           btg_banking, emitted, logged>>
    /\ UNCHANGED calls
    /\ UNCHANGED <<readVars, pathVars>>

\* `for r in ...to_dict("records"): yield r`
YieldRecord ==
    /\ pc = "yield" /\ records # <<>>
    /\ emitted' = Append(emitted, Head(records))
    /\ records' = Tail(records)
    /\ UNCHANGED <<stream, file_password, file_paths, file_idx, pc,
                   btg_credit_raw_list, file_year, file_month, btg_credit_raw,
                   btg_credit, btg_investments_raw, btg_banking, logged, calls>>
    /\ UNCHANGED <<readVars, pathVars>>

\* the records of the file are exhausted: the for loop takes the next path
NextFile ==
    /\ pc = "yield" /\ records = <<>>
    /\ file_idx' = file_idx + 1
    /\ pc' = "loop"
    /\ UNCHANGED <<stream, file_password, file_paths, btg_credit_raw_list,
                   file_year, file_month, btg_credit_raw, btg_credit,
                   btg_investments_raw, btg_banking, records, emitted, logged, calls>>
    /\ UNCHANGED <<readVars, pathVars>>

---------------------------------------------------------------------------
(* The statements the model reads                                          *)

\* the most physical rows of a credit-card statement (first table apart)
MaxCreditRows == 4

\* the most rows below the header of an investment statement
MaxInvestmentRows == 6

\* the most rows of a banking sheet
MaxBankingRows == 3

\* the most files get_file_paths returns
MaxFiles == 2

\* all sequences over S of length lo .. hi
SeqsOf(S, lo, hi) == UNION {[1..n -> S] : n \in lo..hi}

\* the stream instances the tap builds, one for each file config
Instances == {"one", "two"}

\* no read_*_from_s3 call was made and no temporary file exists
NoRead ==
    /\ temp_files = {}
    /\ s3_read = [fn |-> "none", pc |-> "idle", temp_file_path |-> 0,
                  raising |-> FALSE, failed |-> "none", n |-> 0]

\* the streams as __init__ leaves them: no stream has its own file_paths, the
\* class attribute is the empty list
NoCache ==
    /\ BTGStream_file_paths = <<>>
    /\ self_file_paths = [i \in Instances |-> [own |-> FALSE, value |-> <<>>]]
    /\ observed = [listed |-> 0, calls |-> 0, who |-> "none", raised |-> FALSE,
                   returned |-> <<>>,
                   first |-> [i \in Instances |-> [ok |-> FALSE, value |-> <<>>]]]

\* get_records has not begun
NotBegun ==
    /\ file_idx = 0 /\ pc = "start"
    /\ btg_credit_raw_list = <<>> /\ file_year = 0 /\ file_month = 0
    /\ btg_credit_raw = <<>> /\ btg_credit = <<>>
    /\ btg_investments_raw = <<>> /\ btg_banking = <<>>
    /\ records = <<>> /\ emitted = <<>> /\ logged = <<>> /\ calls = <<>>

Idle ==
    /\ NotBegun /\ NoRead /\ NoCache
    /\ file_config = [i \in Instances |-> NaN]
    /\ disk = [keys |-> <<>>, names |-> <<>>]

Password == <<"s", "3", "c", "r", "e", "t">>

EmptyHalf == <<NaN, NaN, NaN>>

\* a purchase, a purchase in dollars with its two following lines, a refund,
\* a line of the statement that is no transaction
Purchase == <<<<"0", "5", " ", "j", "a", "n">>, <<"S", "t", "o", "r", "e">>, <<"R", "$", " ", "1", "2", ",", "3", "0">>>>

Refund == <<<<"0", "7", " ", "m", "a", "r">>, <<"E", "s", "t", "o", "r", "n", "o">>, <<"-", " ", "R", "$", " ", "5", ",", "0", "0">>>>

Dollar == <<<<"1", "0", " ", "f", "e", "v">>, <<"A", "m", "a", "z", "o", "n">>, <<"U", "S", "$", " ", "5", "0", ".", "0", "0">>>>

Rate == <<NaN, <<"C", "o", "t", "a", "ç", "ã", "o", " ", "d", "o", " ", "d", "ó", "l", "a", "r">>, <<"R", "$", " ", "5", ",", "0", "0">>>>

Converted == <<NaN, <<"C", "o", "n", "v", "e", "r", "s", "ã", "o", " ", "p", "a", "r", "a", " ", "r", "e", "a", "l">>, <<"R", "$", " ", "2", "5", "0", ",", "0", "0">>>>

TotalLine == <<<<"T", "o", "t", "a", "l">>, <<"0", "5", " ", "j", "a", "n", " ", "a", " ", "0", "4", " ", "f", "e", "v">>, <<"R", "$", " ", "9", "9", ",", "0", "0">>>>

ShortDay == <<<<"5", " ", "j", "a", "n", " ", "2", "4">>, <<"C", "o", "t", "a", "c", "a", "o">>, NaN>>

CreditRowSet ==
    { Purchase \o Dollar, Refund \o EmptyHalf, EmptyHalf \o Rate,
      EmptyHalf \o Converted, TotalLine \o EmptyHalf, Rate \o EmptyHalf,
      EmptyHalf \o Refund, ShortDay \o TotalLine }

\* the first table of a statement: its summary block
SummaryTable == << TotalLine \o EmptyHalf >>

CreditPaths ==
    { <<"/", "d", "/", "2", "0", "2", "4", "-", "0", "3", ".", "p", "d", "f">>, <<"s", "3", ":", "/", "/", "b", "/", "k", "/", "f", "a", "t", "u", "r", "a", "-", "2", "0", "2", "4", "-", "1", "2", ".", "p", "d", "f">>,
      <<"/", "d", "/", "b", "t", "g", "_", "2", "0", "2", "3", "-", "0", "1", "_", "v", "2", ".", "p", "d", "f">>, <<"/", "d", "/", "2", "0", "2", "5", "-", "0", "6", ".", "p", "d", "f">> }

DayTexts == { <<"0", "1">>, <<"1", "0">>, <<"2", "9">>, <<"3", "1">> }

MonthTexts == {MonthAbbr[m] : m \in 1..12} \cup { <<"D", "E", "Z">>, <<"F", "e", "v">> }

InstallmentTexts ==
    { <<>>, <<" ", "(", "3", "/", "6", ")">>, <<" ", "(", "1", "/", "2", ")">>, <<" ", "(", "9", "/", "9", ")">>, <<" ", "(", "1", "0", "/", "1", "2", ")">>, <<" ", "(", "3", "/", "1", "2", ")">>,
      <<" ", "(", "1", "2", "/", "1", "2", ")">> }

AmountPrefixes == { <<>>, <<"-">>, <<"-", " ">> }

AmountValues == { <<"1", "2", ",", "3", "0">>, <<"1", ".", "2", "3", "4", ",", "5", "6">>, <<"2", "5", "0", ",", "0", "0">>, <<"0", ",", "0", "5">>, <<"1", ".", "0", "0", "0", ".", "0", "0", "0", ",", "0", "0">> }

\* a statement of MaxCreditRows rows at most in one table after the summary
InitCreditGrid ==
    /\ stream = "credit" /\ file_password = Password
    /\ \E rows \in SeqsOf(CreditRowSet, 0, MaxCreditRows) :
          file_paths = << [path |-> <<"/", "d", "/", "2", "0", "2", "4", "-", "0", "3", ".", "p", "d", "f">>,
                           content |-> <<SummaryTable, rows>>] >>
    /\ Idle

\* a statement whose rows come in two tables after the summary
InitCreditTables ==
    /\ stream = "credit" /\ file_password = Password
    /\ \E t1 \in SeqsOf(CreditRowSet, 1, 1),
          t2 \in SeqsOf(CreditRowSet, 0, MaxCreditRows - 2) :
          file_paths = << [path |-> <<"/", "d", "/", "2", "0", "2", "4", "-", "0", "3", ".", "p", "d", "f">>,
                           content |-> <<SummaryTable, t1, t2>>] >>
    /\ Idle

\* a statement of two rows: the second is one transaction, on the left or on
\* the right, whose date and description vary with the billing month
InitCreditDates ==
    /\ stream = "credit" /\ file_password = Password
    /\ \E p \in CreditPaths, d \in DayTexts, m \in MonthTexts,
          i \in InstallmentTexts, left \in BOOLEAN :
          LET half == << d \o <<" ">> \o m, <<"S", "t", "o", "r", "e">> \o i, <<"R", "$", " ", "1", "2", ",", "3", "0">> >>
          IN  file_paths =
                << [path |-> p,
                    content |-> <<SummaryTable,
                                  << Purchase \o EmptyHalf,
                                     IF left THEN half \o EmptyHalf
                                     ELSE EmptyHalf \o half >> >>] >>
    /\ Idle

\* a statement of two rows: the amount of the second varies
InitCreditAmounts ==
    /\ stream = "credit" /\ file_password = Password
    /\ \E s \in AmountPrefixes, v \in AmountValues :
          file_paths =
            << [path |-> <<"/", "d", "/", "2", "0", "2", "4", "-", "0", "3", ".", "p", "d", "f">>,
                content |-> <<SummaryTable,
                              << Purchase \o EmptyHalf,
                                 <<<<"0", "7", " ", "m", "a", "r">>, <<"L", "o", "j", "a">>, s \o <<"R", "$", " ">> \o v>>
                                   \o EmptyHalf >> >>] >>
    /\ Idle

GoodCredit == <<SummaryTable, << Purchase \o EmptyHalf, Refund \o EmptyHalf >> >>

\* the runs that end before or at the first statement: no password, a path
\* that is no .pdf, a name without a billing month, a month that is none,
\* a statement of one table, a statement without tables
InitCreditEdges ==
    /\ stream = "credit"
    /\ \/ /\ file_password \in {NaN, <<>>}
          /\ file_paths = << [path |-> <<"/", "d", "/", "2", "0", "2", "4", "-", "0", "3", ".", "p", "d", "f">>, content |-> GoodCredit] >>
       \/ /\ file_password = Password
          /\ \E p \in { <<"/", "d", "/", "2", "0", "2", "4", "-", "0", "3", ".", "t", "x", "t">>, <<"/", "d", "/", "f", "a", "t", "u", "r", "a", ".", "p", "d", "f">>, <<"/", "d", "/", "2", "0", "2", "4", "-", "1", "3", ".", "p", "d", "f">> } :
                file_paths = << [path |-> p, content |-> GoodCredit] >>
       \/ /\ file_password = Password
          /\ \E c \in { <<SummaryTable>>, <<>> } :
                file_paths = << [path |-> <<"/", "d", "/", "2", "0", "2", "4", "-", "0", "3", ".", "p", "d", "f">>, content |-> c] >>
    /\ Idle

\* the names a bill may have: local and s3://, a billing month in the name,
\* in the directory only, twice, inside a longer run of digits, before a
\* second dot, written another way, or nowhere
NamePaths ==
    { <<"/", "d", "/", "f", "a", "t", "u", "r", "a", ".", "p", "d", "f">>, <<"s", "3", ":", "/", "/", "b", "/", "f", "a", "t", "u", "r", "a", ".", "p", "d", "f">>,
      <<"/", "2", "0", "2", "4", "-", "0", "3", "/", "f", "a", "t", "u", "r", "a", ".", "p", "d", "f">>, <<"s", "3", ":", "/", "/", "b", "/", "2", "0", "2", "4", "-", "0", "3", "/", "f", "a", "t", "u", "r", "a", ".", "p", "d", "f">>,
      <<"s", "3", ":", "/", "/", "b", "/", "2", "0", "2", "4", "-", "0", "4", ".", "p", "d", "f">>, <<"/", "d", "/", "b", "t", "g", "-", "2", "0", "2", "3", "-", "1", "2", "-", "2", "0", "2", "4", "-", "0", "1", ".", "p", "d", "f">>,
      <<"s", "3", ":", "/", "/", "b", "/", "k", "/", "b", "t", "g", "-", "2", "0", "2", "3", "-", "1", "2", "-", "2", "0", "2", "4", "-", "0", "1", ".", "p", "d", "f">>,
      <<"/", "d", "/", "x", "2", "0", "2", "4", "-", "0", "3", "-", "1", "5", ".", "v", "2", ".", "p", "d", "f">>, <<"s", "3", ":", "/", "/", "b", "/", "k", "/", "2", "0", "2", "4", "-", "0", "5", ".", "f", "a", "t", "u", "r", "a", ".", "p", "d", "f">>,
      <<"/", "d", "/", "2", "0", "2", "4", "_", "0", "3", ".", "p", "d", "f">>, <<"/", "d", "/", "2", "4", "-", "0", "3", ".", "p", "d", "f">>, <<"/", "d", "/", "2", "0", "2", "4", "-", "3", ".", "p", "d", "f">>,
      <<"/", "d", "/", "1", "2", "0", "2", "4", "-", "0", "3", "1", ".", "p", "d", "f">>, <<"f", "a", "t", "u", "r", "a", "-", "2", "0", "2", "4", "-", "1", "1", ".", "p", "d", "f">>,
      <<"/", "d", "/", ".", "p", "d", "f">>, <<"s", "3", ":", "/", "/", "b", "/", ".", "p", "d", "f">> }

\* a valid statement under each of these names
InitCreditNames ==
    /\ stream = "credit" /\ file_password = Password
    /\ \E p \in NamePaths : file_paths = << [path |-> p, content |-> GoodCredit] >>
    /\ Idle

InitCredit ==
    \/ InitCreditGrid \/ InitCreditTables \/ InitCreditDates \/ InitCreditAmounts
    \/ InitCreditEdges \/ InitCreditNames

NextCredit ==
    \/ MissingPassword \/ GetFilePaths \/ LoopDone \/ SkipFile
    \/ CreditRead \/ CreditSelect \/ CreditStack \/ CreditRepair \/ CreditAmounts
    \/ CreditDates \/ CreditShift \/ CreditFinish \/ YieldRecord \/ NextFile

SpecCredit == InitCredit /\ [][NextCredit]_vars

---------------------------------------------------------------------------
(* Investment statements                                                   *)

TitleRow == <<<<"E", "x", "t", "r", "a", "t", "o">>, NaN, NaN, NaN, NaN>>

HeaderRow == <<Data, Descricao, Debito, Credito, Saldo>>

\* the same header read without its accents: no column is named Débito
PlainHeaderRow == <<Data, <<"D", "e", "s", "c", "r", "i", "c", "a", "o">>, <<"D", "e", "b", "i", "t", "o">>, <<"C", "r", "e", "d", "i", "t", "o">>, Saldo>>

DebitRow == <<<<"0", "2", "/", "0", "1", "/", "2", "0", "2", "4">>, <<"C", "o", "m", "p", "r", "a">>, <<"1", ".", "2", "3", "4", ",", "5", "6">>, NaN, <<"9", ",", "0", "0">>>>

CreditRow == <<<<"1", "5", "/", "0", "2", "/", "2", "0", "2", "4">>, <<"R", "e", "s", "g", "a", "t", "e">>, NaN, <<"1", "2", ",", "3", "0">>, <<"9", ",", "0", "0">>>>

BothRow == <<<<"0", "3", "/", "0", "1", "/", "2", "0", "2", "4">>, <<"A", "j", "u", "s", "t", "e">>, <<"1", ",", "0", "0">>, <<"2", ",", "0", "0">>, <<"9", ",", "0", "0">>>>

BalanceRow == <<NaN, <<"S", "a", "l", "d", "o">>, NaN, NaN, <<"9", ",", "0", "0">>>>

TextRow == <<<<"T", "o", "t", "a", "l">>, <<"d", "o", " ", "m", "ê", "s">>, <<"R", "$", " ", "1", ",", "0", "0">>, NaN, NaN>>

InvestmentRowSet == {DebitRow, CreditRow, BothRow, BalanceRow, TextRow}

GoodInvestment == << <<TitleRow, HeaderRow, BalanceRow, DebitRow, CreditRow,
                       BalanceRow, BalanceRow, BalanceRow>> >>

BadInvestment == << <<TitleRow, HeaderRow, BalanceRow, TextRow, CreditRow,
                      BalanceRow, BalanceRow, BalanceRow>> >>

\* one statement: title, header and MaxInvestmentRows rows at most; or a
\* header that lacks a column, a table cut before its header, no table
InitInvest ==
    /\ stream = "investments" /\ file_password = NaN
    /\ \E c \in {<< <<TitleRow, HeaderRow>> \o body >> :
                    body \in SeqsOf(InvestmentRowSet, 0, MaxInvestmentRows)}
                \cup { << <<TitleRow, PlainHeaderRow>> \o GoodInvestment[1] >>,
                       << <<TitleRow>> >>, <<>> } :
          file_paths = << [path |-> <<"/", "d", "/", "e", "x", "t", "r", "a", "t", "o", ".", "p", "d", "f">>, content |-> c] >>
    /\ Idle

NextInvest == GetFilePaths \/ LoopDone \/ InvestmentsFile \/ YieldRecord \/ NextFile

SpecInvest == InitInvest /\ [][NextInvest]_vars

---------------------------------------------------------------------------
(* Banking sheets                                                          *)

BankRow(dt, cat, tr, de, va) ==
    [DataEHora |-> dt, Categoria |-> cat, Transacao |-> tr, Descricao |-> de,
     Valor |-> va]

PixRow == BankRow(<<"0", "1", "/", "0", "2", "/", "2", "0", "2", "4">>, <<"P", "i", "x">>, <<"T", "r", "a", "n", "s", "f", "e", "r">>, <<"T", "o", " ", "S", "o", "m", "e", "o", "n", "e">>, <<"1", "0", "0", ".", "0", "0">>)

HeaderEcho == BankRow(DataEHora, <<"C", "a", "t", "e", "g", "o", "r", "i", "a">>, <<"T", "r", "a", "n", "s", "a", "ç", "ã", "o">>, Descricao, <<"V", "a", "l", "o", "r">>)

FillerRow == BankRow(<<"0", "1", "/", "0", "2", "/", "2", "0", "2", "4">>, <<"S", "a", "l", "d", "o", " ", "d", "o", " ", "d", "i", "a">>, <<>>, <<>>, <<>>)

NoCategoryRow == BankRow(<<"0", "3", "/", "0", "2", "/", "2", "0", "2", "4">>, <<>>, <<"T", "a", "r", "i", "f", "a">>, <<"P", "a", "c", "o", "t", "e">>, <<"-", "9", ".", "9", "0">>)

NoDateRow == BankRow(<<>>, <<"P", "i", "x">>, <<"R", "e", "c", "e", "b", "i", "d", "o">>, <<"F", "r", "o", "m", " ", "S", "o", "m", "e", "o", "n", "e">>, <<"2", "5", ".", "0", "0">>)

TextDateRow == BankRow(<<"T", "o", "t", "a", "l">>, <<"P", "i", "x">>, <<"T", "r", "a", "n", "s", "f", "e", "r">>, <<"x">>, <<"1", ".", "0", "0">>)

BankingRowSet == {PixRow, HeaderEcho, FillerRow, NoCategoryRow, NoDateRow, TextDateRow}

GoodBanking == <<PixRow, HeaderEcho>>

BadBanking == <<PixRow, TextDateRow>>

BankingPaths == { <<"/", "d", "/", "e", "x", "t", "r", "a", "t", "o", ".", "x", "l", "s">>, <<"s", "3", ":", "/", "/", "b", "/", "e", "x", "t", "r", "a", "t", "o", ".", "x", "l", "s">> }

InitBanking ==
    /\ stream = "banking" /\ file_password = NaN
    /\ \E p \in BankingPaths \cup { <<"/", "d", "/", "e", "x", "t", "r", "a", "t", "o", ".", "p", "d", "f">> },
          sheet \in SeqsOf(BankingRowSet, 0, MaxBankingRows) :
          file_paths = << [path |-> p, content |-> sheet] >>
    /\ Idle

NextBanking ==
    GetFilePaths \/ LoopDone \/ SkipFile \/ BankingFile \/ YieldRecord \/ NextFile

SpecBanking == InitBanking /\ [][NextBanking]_vars

---------------------------------------------------------------------------
(* A run of one stream over the files get_file_paths resolved              *)

BadCredit == <<SummaryTable, << Purchase \o EmptyHalf, TotalLine \o Refund >> >>

RunFiles(s) ==
    IF s = "investments"
    THEN { [path |-> <<"/", "d", "/", "a", ".", "p", "d", "f">>, content |-> GoodInvestment],
           [path |-> <<"s", "3", ":", "/", "/", "b", "/", "b", ".", "p", "d", "f">>, content |-> BadInvestment] }
    ELSE IF s = "banking"
    THEN { [path |-> <<"/", "d", "/", "a", ".", "x", "l", "s">>, content |-> GoodBanking],
           [path |-> <<"s", "3", ":", "/", "/", "b", "/", "b", ".", "x", "l", "s">>, content |-> BadBanking],
           [path |-> <<"/", "d", "/", "n", "o", "t", "e", "s", ".", "t", "x", "t">>, content |-> <<>>] }
    ELSE { [path |-> <<"/", "d", "/", "2", "0", "2", "4", "-", "0", "3", ".", "p", "d", "f">>, content |-> GoodCredit],
           [path |-> <<"s", "3", ":", "/", "/", "b", "/", "2", "0", "2", "4", "-", "0", "4", ".", "p", "d", "f">>, content |-> BadCredit],
           [path |-> <<"/", "d", "/", "f", "a", "t", "u", "r", "a", ".", "p", "d", "f">>, content |-> GoodCredit],
           [path |-> <<"/", "d", "/", "2", "0", "2", "4", "-", "0", "0", ".", "p", "d", "f">>, content |-> GoodCredit],
           [path |-> <<"/", "d", "/", "2", "0", "2", "4", "-", "0", "5", ".", "p", "d", "f">>, content |-> <<SummaryTable>>],
           [path |-> <<"/", "d", "/", "l", "e", "i", "a", "-", "m", "e", ".", "t", "x", "t">>, content |-> <<>>] }

Init ==
    /\ stream \in {"investments", "credit", "banking"}
    /\ file_password \in
          IF stream = "credit" THEN {NaN, <<>>, Password} ELSE {NaN, Password}
    /\ file_paths \in SeqsOf(RunFiles(stream), 1, MaxFiles)
    /\ Idle

Next ==
    \/ MissingPassword \/ GetFilePaths \/ LoopDone \/ SkipFile
    \/ InvestmentsFile \/ BankingFile
    \/ CreditRead \/ CreditSelect \/ CreditStack \/ CreditRepair \/ CreditAmounts
    \/ CreditDates \/ CreditShift \/ CreditFinish \/ YieldRecord \/ NextFile

Spec == Init /\ [][Next]_vars

---------------------------------------------------------------------------
(* Properties of the credit-card normalizer                                *)

\* the cells of a logical row
Cells(r) == <<r.date, r.description, r.amount>>

\* a printed amount: "R$ ", perhaps after "-" or "- ", then digits with "."
\* between the thousands, "," and two digits
PrintedAmount(a) ==
    /\ ~IsNull(a)
    /\ \E k \in 1..Len(a) :
          /\ SubSeq(a, 1, k - 1) \in {<<>>, <<"-">>, <<"-", " ">>}
          /\ StartsWithAt(a, <<"R", "$", " ">>, k)
          /\ LET t == SubSeq(a, k + 3, Len(a))
             IN  /\ Len(t) >= 4
                 /\ t[1] \in Digits
                 /\ \A j \in 1..(Len(t) - 3) : t[j] \in Digits \cup {"."}
                 /\ t[Len(t) - 2] = ","
                 /\ t[Len(t) - 1] \in Digits /\ t[Len(t)] \in Digits

\* what a printed amount is worth: its digits, the last two being the cents
Magnitude(a) == Norm(DigitsValue(SelectSeq(a, LAMBDA c : c \in Digits)), 2)

\* C1 (as amended): across the amount step, an unprefixed printed amount
\* becomes minus its magnitude ("R$ 12,30" gives -12.30) and a "-"-prefixed
\* one becomes plus its magnitude ("-R$ 12,30" gives 12.30); "." between the
\* thousands is dropped and "," is the decimal point
C1_SignRule ==
    [][pc = "repaired" /\ pc' = "amounts" =>
          \A k \in 1..Len(btg_credit) :
             LET a == btg_credit[k].amount
             IN  PrintedAmount(a) =>
                   btg_credit'[k].amount =
                     IF a[1] = "-" THEN Magnitude(a) ELSE Negate(Magnitude(a))]_vars

\* C1 (as stated): prefixed or not, a printed amount becomes minus its
\* magnitude
C1_AlwaysNegative ==
    [][pc = "repaired" /\ pc' = "amounts" =>
          \A k \in 1..Len(btg_credit) :
             LET a == btg_credit[k].amount
             IN  PrintedAmount(a) => btg_credit'[k].amount = Negate(Magnitude(a))]_vars

\* C1: the amounts are normalized: "R$ 12,30" is now -12.30 and
\* "- R$ 1.234,56" is now 1234.56
C1_Witness ==
    /\ pc = "amounts"
    /\ \E k \in 1..Len(btg_credit) : btg_credit[k].amount = Norm(-1230, 2)
    /\ \E k \in 1..Len(btg_credit) : btg_credit[k].amount = Norm(123456, 2)

\* the foreign-currency triplets of a frame, by position: a row in dollars,
\* then the row of the rate, then the row of the converted value
InDollars(r) == Contains(r.amount, USD)

TripletsAt(f) == {i \in 1..Len(f) : InDollars(f[i])}

WellFormedTriplets(f) ==
    /\ \A i \in 1..Len(f) : ~IsNull(f[i].amount)
    /\ \A i \in TripletsAt(f) :
          /\ i + 2 <= Len(f)
          /\ ~IsNull(f[i + 1].description) /\ Contains(f[i + 1].description, Cotacao)
          /\ ~IsNull(f[i + 2].description) /\ Contains(f[i + 2].description, Conversao)
          /\ ~InDollars(f[i + 1]) /\ ~InDollars(f[i + 2])

\* what the repair is to leave, by position: the rows of rate and converted
\* value are gone, the row in dollars has the amount two rows below it
RepairedByPosition(f) ==
    LET gone == UNION {{i + 1, i + 2} : i \in TripletsAt(f)}
        left == SelectSeq([i \in 1..Len(f) |-> i], LAMBDA i : i \notin gone)
    IN  [j \in 1..Len(left) |->
            <<f[left[j]].date, f[left[j]].description,
              IF left[j] \in TripletsAt(f) THEN f[left[j] + 2].amount
              ELSE f[left[j]].amount>>]

\* C2: across the repair step, every row in dollars that is followed by its
\* rate row and its converted-value row takes the amount of the row two
\* positions below, those two rows are gone, every other row is as it was
C2_ForeignRepair ==
    [][pc = "stacked" /\ WellFormedTriplets(btg_credit) =>
          /\ pc' = "repaired"
          /\ [k \in 1..Len(btg_credit') |-> Cells(btg_credit'[k])]
               = RepairedByPosition(btg_credit)]_vars

\* no fully-empty row was dropped from inside a triplet: the labels of its
\* three rows are consecutive
NoGapInTriplets(f) ==
    \A i \in TripletsAt(f) :
        i + 2 <= Len(f) => f[i + 1].idx = f[i].idx + 1 /\ f[i + 2].idx = f[i].idx + 2

\* the repair does what C2 says when the three rows of every triplet stood
\* next to each other before the fully-empty rows were dropped
ForeignRepairWithoutGap ==
    [][pc = "stacked" /\ WellFormedTriplets(btg_credit) /\ NoGapInTriplets(btg_credit) =>
          /\ pc' = "repaired"
          /\ [k \in 1..Len(btg_credit') |-> Cells(btg_credit'[k])]
               = RepairedByPosition(btg_credit)]_vars

\* the physical rows after the first table, as <<table, row>>
PhysicalRows ==
    UNION {{<<t, r>> : r \in 1..Len(btg_credit_raw_list[t])} :
              t \in 2..Len(btg_credit_raw_list)}

PhysicalRow(p) == btg_credit_raw_list[p[1]][p[2]]

\* the row bears a transaction: a date in column 0 or 3, or a conversion
\* marker in column 1 or 4
BearsTransaction(row) ==
    \/ DatePattern(row[1]) \/ DatePattern(row[4])
    \/ ConversionPattern(row[2]) \/ ConversionPattern(row[5])

\* the left (side 0) or right (side 1) half of a physical row
HalfOf(row, side) == <<row[3 * side + 1], row[3 * side + 2], row[3 * side + 3]>>

\* the halves that are to be logical rows, as <<side, table, row>>
LogicalRows ==
    {<<s, p[1], p[2]>> : s \in {0, 1}, p \in PhysicalRows} \cap
    {x \in {0, 1} \X Nat \X Nat :
        /\ <<x[2], x[3]>> \in PhysicalRows
        /\ BearsTransaction(PhysicalRow(<<x[2], x[3]>>))
        /\ HalfOf(PhysicalRow(<<x[2], x[3]>>), x[1]) # EmptyHalf}

\* all left halves come before all right halves, each side in statement order
Precedes(x, y) ==
    \/ x[1] < y[1]
    \/ x[1] = y[1] /\ x[2] < y[2]
    \/ x[1] = y[1] /\ x[2] = y[2] /\ x[3] < y[3]

PositionOf(x) == 1 + Cardinality({y \in LogicalRows : Precedes(y, x)})

\* C7: after selection and split the frame holds, left halves first, exactly
\* the halves that are not fully empty of the physical rows, first table
\* apart, that bear a transaction
C7_SelectionAndSplit ==
    pc = "stacked" =>
        /\ Len(btg_credit) = Cardinality(LogicalRows)
        /\ \A x \in LogicalRows :
              Cells(btg_credit[PositionOf(x)]) = HalfOf(PhysicalRow(<<x[2], x[3]>>), x[1])

\* C7: a statement in two tables after the summary, of which a row was
\* discarded, a fully-empty half dropped, and halves of both sides kept
C7_Witness ==
    /\ pc = "stacked"
    /\ Len(btg_credit_raw_list) = 3
    /\ Len(btg_credit_raw) < Cardinality(PhysicalRows)
    /\ Len(btg_credit) < 2 * Len(btg_credit_raw)
    /\ \E x, y \in LogicalRows : x[1] = 0 /\ y[1] = 1


\* the month a three-letter abbreviation names, whatever its case
NamesMonth(text, m) == [i \in 1..3 |-> Lower(text[i])] = MonthAbbr[m]

\* C5: across the date step, a row printed "DD mon" whose month is m gets the
\* year before the billing year when m is after the billing month, the
\* billing year otherwise, and the day and month as printed
C5_YearInference ==
    [][pc = "amounts" /\ pc' = "dated" =>
          \A k \in 1..Len(btg_credit) : \A m \in 1..12 :
             LET c == btg_credit[k].date
                 d == DigitsValue(SubSeq(c, 1, 2))
                 y == IF m > file_month THEN file_year - 1 ELSE file_year
             IN  (/\ DatePattern(c) /\ Len(c) = 6
                  /\ NamesMonth(SubSeq(c, 4, 6), m)
                  /\ d >= 1 /\ d <= DaysInMonth(y, m))
                 => btg_credit'[k].date = [y |-> y, m |-> m, d |-> d]]_vars

\* C5: billing month 2024-03; "10 dez" is dated 2023-12-10 and "05 jan" is
\* dated 2024-01-05
C5_Witness ==
    /\ pc = "dated" /\ file_year = 2024 /\ file_month = 3
    /\ \E k \in 1..Len(btg_credit) : btg_credit[k].date = [y |-> 2023, m |-> 12, d |-> 10]
    /\ \E k \in 1..Len(btg_credit) : btg_credit[k].date = [y |-> 2024, m |-> 1, d |-> 5]

\* an installment marker "(N/M)" of a description: "(" at i, "/" at j, ")"
\* at k, digits and only digits between them
MarkerAt(desc, i, j, k) ==
    /\ i + 1 < j /\ j + 1 < k /\ k <= Len(desc)
    /\ desc[i] = "(" /\ desc[j] = "/" /\ desc[k] = ")"
    /\ \A x \in ((i + 1)..(j - 1)) \cup ((j + 1)..(k - 1)) : desc[x] \in Digits

Markers(desc) ==
    IF IsNull(desc) THEN {}
    ELSE {x \in (1..Len(desc)) \X (1..Len(desc)) \X (1..Len(desc)) :
             MarkerAt(desc, x[1], x[2], x[3])}

FirstMarker(desc) ==
    CHOOSE x \in Markers(desc) : \A y \in Markers(desc) : x[1] <= y[1]

MarkerN(desc) ==
    LET x == FirstMarker(desc) IN DigitsValue(SubSeq(desc, x[1] + 1, x[2] - 1))

MarkerM(desc) ==
    LET x == FirstMarker(desc) IN DigitsValue(SubSeq(desc, x[2] + 1, x[3] - 1))

\* the calendar day n months after dt, the day kept within the month reached
MonthsLater(dt, n) ==
    LET y == dt.y + ((dt.m - 1 + n) \div 12)
        m == ((dt.m - 1 + n) % 12) + 1
    IN  [y |-> y, m |-> m,
         d |-> IF dt.d > DaysInMonth(y, m) THEN DaysInMonth(y, m) ELSE dt.d]

\* C6: across the installment step, a row whose description holds "(N/M)",
\* 1 <= N <= M, moves N - 1 months forward; a row without a marker keeps
\* its date
C6_InstallmentShift ==
    [][pc = "dated" /\ pc' = "shifted" =>
          \A k \in 1..Len(btg_credit) :
             LET r == btg_credit[k]
                 desc == r.description
             IN  /\ (/\ Markers(desc) # {} /\ r.date # NaT
                     /\ MarkerN(desc) >= 1 /\ MarkerN(desc) <= MarkerM(desc))
                    => btg_credit'[k].date = MonthsLater(r.date, MarkerN(desc) - 1)
                 /\ Markers(desc) = {} => btg_credit'[k].date = r.date]_vars

\* the same for the markers whose N and M are one digit each
InstallmentShiftOfOneDigit ==
    [][pc = "dated" /\ pc' = "shifted" =>
          \A k \in 1..Len(btg_credit) :
             LET r == btg_credit[k]
                 desc == r.description
             IN  /\ (/\ Markers(desc) # {} /\ r.date # NaT
                     /\ MarkerN(desc) >= 1 /\ MarkerN(desc) <= MarkerM(desc)
                     /\ MarkerM(desc) <= 9)
                    => btg_credit'[k].date = MonthsLater(r.date, MarkerN(desc) - 1)
                 /\ Markers(desc) = {} => btg_credit'[k].date = r.date]_vars

---------------------------------------------------------------------------
(* Properties of the investment normalizer                                 *)

\* a printed number: digits, "." between the thousands, perhaps "," and
\* decimals
PrintedNumber(c) ==
    /\ ~IsNull(c) /\ c # <<>>
    /\ c[1] \in Digits /\ c[Len(c)] \in Digits
    /\ \A i \in 1..Len(c) : c[i] \in Digits \cup {".", ","}
    /\ Cardinality({i \in 1..Len(c) : c[i] = ","}) <= 1
    /\ \A i, j \in 1..Len(c) : (c[i] = "," /\ c[j] = ".") => j < i

\* what it is worth: its digits, as many of them decimals as follow the ","
LocaleValue(c) ==
    LET after == IF \E i \in 1..Len(c) : c[i] = ","
                 THEN Len(c) - (CHOOSE i \in 1..Len(c) : c[i] = ",")
                 ELSE 0
    IN  Norm(DigitsValue(SelectSeq(c, LAMBDA x : x \in Digits)), after)

\* the rows between the opening balance and the last three
TransactionRows(t) == SubSeq(t, 4, Len(t) - 3)

DebitOf(t, row) == row[ColumnOf(t[2], Debito)]

CreditOf(t, row) == row[ColumnOf(t[2], Credito)]

ExactlyOnePopulated(t, row) == IsNull(DebitOf(t, row)) # IsNull(CreditOf(t, row))

PopulatedOf(t, row) ==
    IF IsNull(DebitOf(t, row)) THEN CreditOf(t, row) ELSE DebitOf(t, row)

\* every record of the file: those yielded and those still to yield
FileRecords == emitted \o records

\* C3: a statement whose normalization did not raise has, in every
\* transaction row, exactly one of Débito and Crédito populated, and that
\* one cell a printed number
C3_ViolationRaises ==
    (stream = "investments" /\ pc = "yield") =>
        \A k \in 1..Len(TransactionRows(btg_investments_raw)) :
           LET row == TransactionRows(btg_investments_raw)[k]
           IN  /\ ExactlyOnePopulated(btg_investments_raw, row)
               /\ PrintedNumber(PopulatedOf(btg_investments_raw, row))

\* C4: the records are those of the rows between the opening balance and the
\* last three, in order; where exactly one of Débito and Crédito is populated
\* the amount is its locale value, positive for a credit and negative for a
\* debit
C4_SignedAmounts ==
    (stream = "investments" /\ pc = "yield") =>
        LET t    == btg_investments_raw
            rows == TransactionRows(t)
        IN  /\ Len(FileRecords) = (IF Len(t) > 6 THEN Len(t) - 6 ELSE 0)
            /\ \A k \in 1..Len(rows) :
                  /\ FileRecords[k].description = rows[k][ColumnOf(t[2], Descricao)]
                  /\ (ExactlyOnePopulated(t, rows[k]) /\ PrintedNumber(PopulatedOf(t, rows[k])))
                     => FileRecords[k].amount =
                          IF IsNull(DebitOf(t, rows[k]))
                          THEN LocaleValue(CreditOf(t, rows[k]))
                          ELSE Negate(LocaleValue(DebitOf(t, rows[k])))

\* C4: a statement of two transactions, a debit of 1.234,56 and a credit of
\* 12,30, gave the records of -1234.56 and 12.30, both yielded
C4_Witness ==
    /\ stream = "investments" /\ pc = "yield" /\ records = <<>>
    /\ Len(btg_investments_raw) = 8
    /\ Len(emitted) = 2
    /\ emitted[1].amount = Norm(-123456, 2)
    /\ emitted[2].amount = Norm(1230, 2)

---------------------------------------------------------------------------
(* Properties of the banking normalizer                                    *)

\* the rows with an amount that do not repeat the header
Qualifying(sheet) ==
    SelectSeq(sheet, LAMBDA r : r.Valor # <<>> /\ r.DataEHora # DataEHora)

DayFirst(c) ==
    [y |-> DigitsValue(SubSeq(c, 7, 10)), m |-> DigitsValue(SubSeq(c, 4, 5)),
     d |-> DigitsValue(SubSeq(c, 1, 2))]

\* C8: the records are those of the qualifying rows, in order, each with the
\* date of its row, the three texts joined by " - " and the amount as it is
C8_BankingRecords ==
    (stream = "banking" /\ pc = "yield") =>
        LET q == Qualifying(btg_banking)
        IN  /\ Len(FileRecords) = Len(q)
            /\ \A k \in 1..Len(q) :
                  /\ q[k].DataEHora # <<>> => FileRecords[k].date = DayFirst(q[k].DataEHora)
                  /\ FileRecords[k].description =
                        q[k].Categoria \o Separator \o q[k].Transacao \o Separator
                          \o q[k].Descricao
                  /\ FileRecords[k].amount = q[k].Valor

\* the same for the sheets whose qualifying rows have the three texts
BankingRecordsOfFullRows ==
    (stream = "banking" /\ pc = "yield") =>
        LET q == Qualifying(btg_banking)
        IN  /\ Len(FileRecords) = Len(q)
            /\ \A k \in 1..Len(q) :
                  /\ q[k].DataEHora # <<>> => FileRecords[k].date = DayFirst(q[k].DataEHora)
                  /\ (q[k].Categoria # <<>> /\ q[k].Transacao # <<>> /\ q[k].Descricao # <<>>)
                     => FileRecords[k].description =
                          q[k].Categoria \o Separator \o q[k].Transacao \o Separator
                            \o q[k].Descricao
                  /\ FileRecords[k].amount = q[k].Valor

---------------------------------------------------------------------------
(* Properties of a run                                                     *)

\* what a file is to give when it is normalized alone
Alone(f) ==
    IF stream = "investments"
    THEN (IF f.content = <<>> THEN [ok |-> FALSE, records |-> <<>>]
          ELSE NormalizeInvestments(f.content[1]))
    ELSE IF stream = "banking"
    THEN (IF EndsWith(f.path, XlsSuffix) THEN NormalizeBanking(f.content)
          ELSE [ok |-> TRUE, records |-> <<>>])
    ELSE (IF EndsWith(f.path, PdfSuffix) THEN NormalizeCredit(f.path, f.content)
          ELSE [ok |-> TRUE, records |-> <<>>])

RECURSIVE RecordsOfValid(_)
RecordsOfValid(files) ==
    IF files = <<>> THEN <<>>
    ELSE (IF Alone(Head(files)).ok THEN Alone(Head(files)).records ELSE <<>>)
           \o RecordsOfValid(Tail(files))

RECURSIVE RecordsUntilFailure(_)
RecordsUntilFailure(files) ==
    IF files = <<>> \/ ~Alone(Head(files)).ok THEN <<>>
    ELSE Alone(Head(files)).records \o RecordsUntilFailure(Tail(files))

Ended == pc \in {"done", "raised"}

\* C9: when the run has ended, the records of every valid file were yielded,
\* whether the file stands before or after a failing one
C9_FileIsolation ==
    (Ended /\ (stream = "credit" => file_password = Password)) =>
        emitted = RecordsOfValid(file_paths)

\* what the run does yield: the records of the files before the first
\* failing one
RunStopsAtFirstFailure ==
    (Ended /\ (stream = "credit" => file_password = Password)) =>
        emitted = RecordsUntilFailure(file_paths)

\* C10: without a password, or with the empty one, the credit-card stream
\* yields nothing, resolves and reads no file, never raises, and ends having
\* logged the one error
C10_MissingPassword ==
    (stream = "credit" /\ file_password \in {NaN, <<>>}) =>
        /\ pc \in {"start", "done"}
        /\ emitted = <<>> /\ records = <<>> /\ calls = <<>>
        /\ logged = (IF pc = "done" THEN <<PasswordMissing>> ELSE <<>>)

\* C10: the stream ended with the empty password, the error logged
C10_Witness ==
    /\ stream = "credit" /\ file_password = <<>>
    /\ pc = "done" /\ logged = <<PasswordMissing>>
    /\ Len(file_paths) >= 2


---------------------------------------------------------------------------
(* Properties of the billing month                                         *)

\* the last place of a character in a text, 0 when it is not there
LastIndexOf(p, ch) ==
    IF \E i \in 1..Len(p) : p[i] = ch
    THEN CHOOSE i \in 1..Len(p) : p[i] = ch /\ \A j \in (i + 1)..Len(p) : p[j] # ch
    ELSE 0

\* the base name of a path: what stands after the last "/" and before the
\* last "." that follows it
BaseName(p) ==
    LET s == LastIndexOf(p, "/")
        d == LastIndexOf(p, ".")
    IN  SubSeq(p, s + 1, IF d > s + 1 THEN d - 1 ELSE Len(p))

\* the places of a base name where four digits, "-" and two digits stand
Occurrences(b) ==
    {k \in 1..(Len(b) - 6) :
        /\ \A j \in {k, k + 1, k + 2, k + 3, k + 5, k + 6} : b[j] \in Digits
        /\ b[k + 4] = "-"}

\* the year and month at the first of them
BillingOf(b) ==
    LET k == CHOOSE i \in Occurrences(b) : \A j \in Occurrences(b) : i <= j
    IN  [y |-> 1000 * DigitValue(b[k]) + 100 * DigitValue(b[k + 1])
                 + 10 * DigitValue(b[k + 2]) + DigitValue(b[k + 3]),
         m |-> 10 * DigitValue(b[k + 5]) + DigitValue(b[k + 6]),
         d |-> 1]

\* C11: a bill whose base name holds no YYYY-MM fails when it is taken up and
\* no record of it is yielded; otherwise the first YYYY-MM of the base name is
\* the billing year and month, and every record the file comes to yield
\* carries the first day of that month as bill_month
C11_BillingMonth ==
    [][/\ (/\ stream = "credit" /\ pc = "loop" /\ file_idx <= Len(file_paths)
           /\ EndsWith(CurrentFile.path, PdfSuffix))
          => LET b == BaseName(CurrentFile.path)
             IN  IF Occurrences(b) = {}
                 THEN pc' = "raised" /\ records' = <<>> /\ emitted' = emitted
                 ELSE /\ pc' = "read"
                      /\ file_year' = BillingOf(b).y /\ file_month' = BillingOf(b).m
       /\ (stream = "credit" /\ pc # "yield" /\ pc' = "yield")
          => /\ Occurrences(BaseName(CurrentFile.path)) # {}
             /\ \A k \in 1..Len(records') :
                   records'[k].bill_month = BillingOf(BaseName(CurrentFile.path))]_vars

\* C11: the bill btg-2023-12-2024-01.pdf was normalized and its record carries
\* 2023-12-01
C11_Witness ==
    /\ stream = "credit" /\ pc = "yield" /\ records # <<>>
    /\ BaseName(CurrentFile.path) = <<"b", "t", "g", "-", "2", "0", "2", "3", "-", "1", "2", "-", "2", "0", "2", "4", "-", "0", "1">>
    /\ \A k \in 1..Len(records) : records[k].bill_month = [y |-> 2023, m |-> 12, d |-> 1]

---------------------------------------------------------------------------
(* read_pdf_from_s3 and read_xls_from_s3: the remote file is downloaded,   *)
(* written to a temporary file, read from there, and the temporary file is *)
(* removed.  Each step that may raise either succeeds or raises.           *)

\* the most read_*_from_s3 calls of a run
MaxReads == 3

ReadFunctions == {"investments", "credit", "banking"}

ReadEnded == s3_read.pc \in {"returned", "raised"}

\* read_pdf_from_s3 / read_xls_from_s3 is called: boto3.client("s3")
read_from_s3(f) ==
    /\ s3_read.pc = "idle" \/ ReadEnded
    /\ s3_read.n < MaxReads
    /\ s3_read' = [fn |-> f, pc |-> "called", temp_file_path |-> 0,
                   raising |-> FALSE, failed |-> "none", n |-> s3_read.n + 1]
    /\ UNCHANGED <<temp_files, runVars, pathVars>>

\* s3_client.get_object(...)["Body"].read(): no temporary file exists yet
get_object ==
    /\ s3_read.pc = "called"
    /\ \/ s3_read' = [s3_read EXCEPT !.pc = "downloaded"]
       \/ s3_read' = [s3_read EXCEPT !.pc = "raised", !.failed = "get_object"]
    /\ UNCHANGED <<temp_files, runVars, pathVars>>

\* with tempfile.NamedTemporaryFile(delete=False) as temp_file: the file is
\* created under a fresh name
NamedTemporaryFile ==
    /\ s3_read.pc = "downloaded"
    /\ temp_files' = temp_files \cup {s3_read.n}
    /\ s3_read' = [s3_read EXCEPT !.pc = "created"]
    /\ UNCHANGED <<runVars, pathVars>>

\* temp_file.write(content); temp_file_path = temp_file.name.  When write
\* raises, the with block closes the file, which delete=False keeps, and the
\* exception leaves the function before its try is entered
write ==
    /\ s3_read.pc = "created"
    /\ \/ s3_read' = [s3_read EXCEPT !.pc = "written", !.temp_file_path = s3_read.n]
       \/ s3_read' = [s3_read EXCEPT !.pc = "raised", !.failed = "write"]
    /\ UNCHANGED <<temp_files, runVars, pathVars>>

\* investments only, inside try: self.get_pdf_num_pages(temp_file_path)
get_pdf_num_pages ==
    /\ s3_read.pc = "written" /\ s3_read.fn = "investments"
    /\ \/ s3_read' = [s3_read EXCEPT !.pc = "counted"]
       \/ s3_read' = [s3_read EXCEPT !.pc = "finally", !.raising = TRUE,
                                     !.failed = "pages"]
    /\ UNCHANGED <<temp_files, runVars, pathVars>>

\* inside try: tabula.read_pdf(temp_file_path, ...) / pe.get_records(...)
read_table ==
    /\ s3_read.pc = (IF s3_read.fn = "investments" THEN "counted" ELSE "written")
    /\ \/ s3_read' = [s3_read EXCEPT !.pc = "finally"]
       \/ s3_read' = [s3_read EXCEPT !.pc = "finally", !.raising = TRUE,
                                     !.failed = "extract"]
    /\ UNCHANGED <<temp_files, runVars, pathVars>>

\* finally: os.remove(temp_file_path); then the function returns or the
\* exception goes on
os_remove ==
    /\ s3_read.pc = "finally"
    /\ temp_files' = temp_files \ {s3_read.temp_file_path}
    /\ s3_read' = [s3_read EXCEPT !.pc = IF s3_read.raising THEN "raised" ELSE "returned"]
    /\ UNCHANGED <<runVars, pathVars>>

\* no generator runs
NoRun ==
    /\ stream = "investments" /\ file_password = NaN /\ file_paths = <<>>
    /\ Idle

InitRead == NoRun

NextRead ==
    \/ \E f \in ReadFunctions : read_from_s3(f)
    \/ get_object \/ NamedTemporaryFile \/ write \/ get_pdf_num_pages
    \/ read_table \/ os_remove

SpecRead == InitRead /\ [][NextRead]_vars

---------------------------------------------------------------------------
(* Properties of the remote reads                                          *)

\* C12: once a remote read has returned or raised, no temporary file is left
C12_TempRemoved == ReadEnded => temp_files = {}

\* the same when no write has failed: what is left are the files of the reads
\* whose write raised
TempRemovedUnlessWriteFails ==
    (ReadEnded /\ s3_read.failed # "write") => s3_read.n \notin temp_files

---------------------------------------------------------------------------
(* BTGStream.get_file_paths (client.py): the files of a stream are resolved *)
(* from file_config["path"] and kept in self.file_paths                    *)

\* the most get_file_paths calls
MaxCalls == 3

\* text.split(ch)
RECURSIVE SplitOn(_, _)
SplitOn(s, ch) ==
    IF \E i \in 1..Len(s) : s[i] = ch
    THEN LET k == CHOOSE i \in 1..Len(s) : s[i] = ch /\ \A j \in 1..(i - 1) : s[j] # ch
         IN  <<SubSeq(s, 1, k - 1)>> \o SplitOn(SubSeq(s, k + 1, Len(s)), ch)
    ELSE <<s>>

\* ch.join(parts)
RECURSIVE JoinWith(_, _)
JoinWith(parts, ch) ==
    IF parts = <<>> THEN <<>>
    ELSE IF Len(parts) = 1 THEN parts[1]
    ELSE parts[1] \o <<ch>> \o JoinWith(Tail(parts), ch)

\* the one bucket and the one directory there are
Bucket == <<"b">>

Directory == <<"/", "d">>

\* os.path.normpath on the paths met here: trailing separators go
RECURSIVE os_path_normpath(_)
os_path_normpath(p) ==
    IF Len(p) > 1 /\ p[Len(p)] = "/" THEN os_path_normpath(SubSeq(p, 1, Len(p) - 1))
    ELSE p

os_path_isdir(p, dk) == os_path_normpath(p) = Directory

os_path_exists(p, dk) ==
    \/ os_path_isdir(p, dk)
    \/ \E k \in 1..Len(dk.names) : p = Directory \o <<"/">> \o dk.names[k]

\* lines 28-35: the keys under the prefix that are no folders, as s3:// paths
list_s3_files_in_folder(s3_bucket, s3_folder, dk) ==
    LET contents == IF s3_bucket = Bucket
                    THEN SelectSeq(dk.keys, LAMBDA key : StartsWith(key, s3_folder))
                    ELSE <<>>
        kept     == SelectSeq(contents, LAMBDA key : ~EndsWith(key, <<"/">>))
    IN  [k \in 1..Len(kept) |-> S3Prefix \o s3_bucket \o <<"/">> \o kept[k]]

\* lines 70-73: the names of the directory after the normalized path
ListDirectory(p, dk) ==
    LET clean_file_path == os_path_normpath(p) \o <<"/">>
    IN  [k \in 1..Len(dk.names) |-> clean_file_path \o dk.names[k]]

\* self.file_paths = v: the instance gets its own attribute, the attribute of
\* the class stays as it is
Assign(cls, self, i, v) ==
    [cls |-> cls, self |-> [self EXCEPT ![i] = [own |-> TRUE, value |-> v]]]

\* reading self.file_paths: the instance's own attribute, else the class's
Lookup(cls, self, i) == IF self[i].own THEN self[i].value ELSE cls

\* lines 54-82 when nothing is cached: what is assigned, what the local
\* file_paths is, whether a listing was made and whether the call raises
Resolve(file_path, dk) ==
    IF ~Truthy(file_path)
    THEN [raises |-> TRUE, assigns |-> FALSE, file_paths |-> <<>>, lists |-> FALSE]
    ELSE IF StartsWith(file_path, S3Prefix)
    THEN LET path_split == SplitOn(file_path, "/")
             s3_bucket  == path_split[3]
             s3_key     == JoinWith(SubSeq(path_split, 4, Len(path_split)), "/")
         IN  IF EndsWith(s3_key, <<"/">>)
             THEN LET found == list_s3_files_in_folder(s3_bucket, s3_key, dk)
                  IN  [raises |-> found = <<>>, assigns |-> TRUE, file_paths |-> found,
                       lists |-> TRUE]
             ELSE [raises |-> FALSE, assigns |-> TRUE, file_paths |-> <<file_path>>,
                   lists |-> FALSE]
    ELSE IF os_path_isdir(file_path, dk)
    THEN LET found == ListDirectory(file_path, dk)
         IN  [raises |-> found = <<>>, assigns |-> TRUE, file_paths |-> found,
              lists |-> TRUE]
    ELSE IF os_path_exists(file_path, dk)
    THEN [raises |-> FALSE, assigns |-> TRUE, file_paths |-> <<file_path>>,
          lists |-> FALSE]
    ELSE [raises |-> TRUE, assigns |-> FALSE, file_paths |-> <<>>, lists |-> FALSE]

\* the caller's notes after a call of stream i
Noted(i, raised, value, lists) ==
    [listed   |-> observed.listed + (IF lists THEN 1 ELSE 0),
     calls    |-> observed.calls + 1,
     who      |-> i,
     raised   |-> raised,
     returned |-> value,
     first    |-> IF raised \/ observed.first[i].ok THEN observed.first
                  ELSE [observed.first EXCEPT ![i] = [ok |-> TRUE, value |-> value]]]

\* lines 51-84: one call of get_file_paths on stream i
get_file_paths(i) ==
    /\ observed.calls < MaxCalls
    /\ LET cached == Lookup(BTGStream_file_paths, self_file_paths, i)
       IN  IF cached # <<>>
           THEN /\ observed' = Noted(i, FALSE, cached, FALSE)
                /\ UNCHANGED <<BTGStream_file_paths, self_file_paths>>
           ELSE LET r     == Resolve(file_config[i], disk)
                    after == IF r.assigns
                             THEN Assign(BTGStream_file_paths, self_file_paths, i,
                                         r.file_paths)
                             ELSE [cls |-> BTGStream_file_paths, self |-> self_file_paths]
                    empty == Lookup(after.cls, after.self, i) = <<>>
                IN  /\ BTGStream_file_paths' = after.cls
                    /\ self_file_paths' = after.self
                    /\ observed' = Noted(i, r.raises \/ empty,
                                         IF r.raises \/ empty THEN <<>> ELSE r.file_paths,
                                         r.lists)
    /\ UNCHANGED <<file_config, disk, runVars, readVars>>

\* what the bucket and the directory may hold
DiskStates ==
    { [keys |-> <<>>, names |-> <<>>],
      [keys |-> << <<"k", "/">> >>, names |-> << <<"a", ".", "p", "d", "f">> >>],
      [keys |-> << <<"k", "/">>, <<"k", "/", "a", ".", "p", "d", "f">> >>, names |-> << <<"a", ".", "p", "d", "f">>, <<"b", ".", "x", "l", "s">> >>],
      [keys |-> << <<"k", "/", "a", ".", "p", "d", "f">>, <<"k", "/", "b", ".", "p", "d", "f">> >>, names |-> <<>>] }

\* files come and go between the calls
DiskChange ==
    /\ disk' \in DiskStates \ {disk}
    /\ UNCHANGED <<BTGStream_file_paths, self_file_paths, file_config, observed,
                   runVars, readVars>>

\* the paths a file config may hold: none, the empty one, a folder and a
\* file of the bucket, the directory with and without its separator, a file
\* of the directory, a path that does not exist
ConfigPaths ==
    { NaN, <<>>, <<"s", "3", ":", "/", "/", "b", "/", "k", "/">>, <<"s", "3", ":", "/", "/", "b", "/", "k", "/", "a", ".", "p", "d", "f">>, <<"/", "d">>, <<"/", "d", "/">>, <<"/", "d", "/", "a", ".", "p", "d", "f">>,
      <<"/", "m", "i", "s", "s", "i", "n", "g">> }

InitPaths ==
    /\ stream = "investments" /\ file_password = NaN /\ file_paths = <<>>
    /\ NotBegun /\ NoRead /\ NoCache
    /\ file_config \in [Instances -> ConfigPaths]
    /\ file_config["two"] \in { <<"/", "d">>, <<"s", "3", ":", "/", "/", "b", "/", "k", "/">>, <<"/", "m", "i", "s", "s", "i", "n", "g">> }
    /\ disk \in DiskStates

NextPaths ==
    \/ \E i \in Instances : get_file_paths(i)
    \/ DiskChange

SpecPaths == InitPaths /\ [][NextPaths]_vars

---------------------------------------------------------------------------
(* Properties of get_file_paths                                            *)

\* the files a configured path stands for on a disk: the objects under a
\* folder of the bucket, the entries of the directory, the path itself when it
\* is a file that exists or the key of an object (one that exists, when
\* sought is TRUE); none for a path that is unset or does not exist
FilesOf(p, dk, sought) ==
    IF p \in {NaN, <<>>} THEN <<>>
    ELSE IF Len(p) >= 5 /\ SubSeq(p, 1, 5) = S3Prefix
    THEN (IF p[Len(p)] = "/"
          THEN LET under == SelectSeq(dk.keys, LAMBDA key :
                               /\ Len(key) > Len(p) - 7
                               /\ SubSeq(key, 1, Len(p) - 7) = SubSeq(p, 8, Len(p))
                               /\ key[Len(key)] # "/")
               IN  [k \in 1..Len(under) |-> SubSeq(p, 1, 7) \o under[k]]
          ELSE IF sought /\ \A k \in 1..Len(dk.keys) : dk.keys[k] # SubSeq(p, 8, Len(p))
          THEN <<>>
          ELSE <<p>>)
    ELSE IF p \in {Directory, Directory \o <<"/">>}
    THEN [k \in 1..Len(dk.names) |-> Directory \o <<"/">> \o dk.names[k]]
    ELSE IF \E k \in 1..Len(dk.names) : p = Directory \o <<"/">> \o dk.names[k]
    THEN <<p>>
    ELSE <<>>

StandsFor(p, dk) == FilesOf(p, dk, TRUE)

\* the same, the key of an object taken as it is
TakenFor(p, dk) == FilesOf(p, dk, FALSE)

\* the list stream i holds: its own, or that of the class
CacheOf(i) ==
    IF self_file_paths[i].own THEN self_file_paths[i].value ELSE BTGStream_file_paths

CacheAfter(i) ==
    IF self_file_paths'[i].own THEN self_file_paths'[i].value ELSE BTGStream_file_paths'

\* C13: across every call of get_file_paths on a stream: the call returns a
\* list that is not empty or raises; before the stream's first success it
\* raises exactly when its own path is unset, does not exist or stands for no
\* file, it returns the files of its own path otherwise, and a raise leaves
\* its cache empty; after the first success it returns the list of that
\* success and nothing is listed; and no other stream's list changes
C13_CachePerStream ==
    [][observed'.calls = observed.calls + 1 =>
          LET i == observed'.who
          IN  /\ ~observed'.raised => observed'.returned # <<>>
              /\ observed'.raised => CacheAfter(i) = <<>>
              /\ ~observed.first[i].ok =>
                    /\ observed'.raised <=> StandsFor(file_config[i], disk) = <<>>
                    /\ ~observed'.raised =>
                          observed'.returned = StandsFor(file_config[i], disk)
              /\ observed.first[i].ok =>
                    /\ ~observed'.raised
                    /\ observed'.returned = observed.first[i].value
                    /\ observed'.listed = observed.listed
              /\ \A j \in Instances \ {i} :
                    /\ self_file_paths'[j] = self_file_paths[j]
                    /\ CacheAfter(j) = CacheOf(j)]_vars

\* what holds of every call: the same, except that a path of the bucket that
\* is no folder is returned as it is, whether or not the object exists
CachePerStreamOfPathsTaken ==
    [][observed'.calls = observed.calls + 1 =>
          LET i == observed'.who
          IN  /\ ~observed'.raised => observed'.returned # <<>>
              /\ observed'.raised => CacheAfter(i) = <<>>
              /\ ~observed.first[i].ok =>
                    /\ observed'.raised <=> TakenFor(file_config[i], disk) = <<>>
                    /\ ~observed'.raised =>
                          observed'.returned = TakenFor(file_config[i], disk)
              /\ observed.first[i].ok =>
                    /\ ~observed'.raised
                    /\ observed'.returned = observed.first[i].value
                    /\ observed'.listed = observed.listed
              /\ \A j \in Instances \ {i} :
                    /\ self_file_paths'[j] = self_file_paths[j]
                    /\ CacheAfter(j) = CacheOf(j)]_vars

=============================================================================
